---------------------------- MODULE Spec2Model ----------------------------
(***************************************************************************)
(* Prediction-market pallet (pallets/custom-pallet/src/lib.rs; try.rs is a *)
(* near-duplicate with the same three calls).                              *)
(*                                                                         *)
(* State: the three storage items Markets, MarketCount, Votes, the block   *)
(* number of frame_system, and the balances kept by T::Currency.  Each     *)
(* dispatchable (create_market, vote, release_rewards) is one action that  *)
(* runs the whole call; a call that returns Err leaves storage and the     *)
(* ledger as they were (storage layer rollback) and only its result is     *)
(* observable, in the variable last.                                       *)
(*                                                                         *)
(* T::Currency is a collaborator outside the pallet: a transfer moves the  *)
(* amount when the ledger accepts it, and the ledger may refuse any        *)
(* transfer (it always refuses one the sender cannot afford).              *)
(*                                                                         *)
(* The u32 counters use saturating_add; the saturation point 2^32 - 1 is   *)
(* far beyond the bounds explored here, so SatInc is the plain successor.  *)
(***************************************************************************)
EXTENDS Integers, Sequences, FiniteSets, TLC

VARIABLES Markets, MarketCount, Votes, block_number, balance, last

vars == <<Markets, MarketCount, Votes, block_number, balance, last>>

store == <<Markets, MarketCount, Votes, balance>>

---------------------------------------------------------------------------
(* Runtime configuration (Config trait constants) *)

VoteCost == 10

CreatorRewardPercentage == 5

MarketDuration == 1

MaxMetadataLen == 256

ExistentialDeposit == 1

(* Bounds of the exploration *)

MaxBlock == 3

MaxCalls == 7

InitBalance == 15

AccountOrder == <<"a1", "a2", "a3">>

Accounts == {AccountOrder[i] : i \in 1..Len(AccountOrder)}

Creators == {"a1"}

MetadataLens == {256, 257}

NoVal == "-"

---------------------------------------------------------------------------
(* Pallet::account_id(): the escrow account derived from PalletId *)
account_id == "escrow"

Holders == Accounts \cup {account_id}

(* ensure_signed(origin) *)
ensure_signed(origin) == origin \in Accounts

(* u32::saturating_add(1), below the saturation point *)
SatInc(n) == n + 1

(* Balance::saturating_sub *)
SatSub(a, b) == IF a >= b THEN a - b ELSE 0

(* Market ids a caller may name; one that is not created yet is unknown *)
MarketIds == {0, 1}

---------------------------------------------------------------------------
(* T::Currency::transfer: whether the ledger can carry it out *)
CanTransfer(bal, from, amount, keep_alive) ==
    /\ bal[from] >= amount
    /\ (keep_alive /\ amount > 0) => bal[from] - amount >= ExistentialDeposit

(* T::Currency::transfer: the balances after a transfer that succeeded *)
Transfer(bal, from, to, amount) ==
    IF from = to THEN bal
    ELSE [bal EXCEPT ![from] = @ - amount, ![to] = @ + amount]

---------------------------------------------------------------------------
Init ==
    /\ Markets = <<>>
    /\ MarketCount = 0
    /\ Votes = <<>>
    /\ block_number = 1
    /\ balance = [h \in Holders |-> IF h = account_id THEN 0 ELSE InitBalance]
    /\ last = [op |-> "genesis", origin |-> NoVal, market_id |-> NoVal,
               arg |-> NoVal, result |-> "Ok", events |-> <<>>,
               transfers |-> <<>>]

(* The calls that have succeeded so far: each one created a market, added *)
(* a vote record or settled a market                                        *)
Settled == {m \in DOMAIN Markets : ~Markets[m].is_active}

Calls == MarketCount + Cardinality(DOMAIN Votes) + Cardinality(Settled)

Failed(op, origin, market_id, arg, err) ==
    /\ last' = [op |-> op, origin |-> origin, market_id |-> market_id,
                arg |-> arg, result |-> err, events |-> <<>>,
                transfers |-> <<>>]
    /\ UNCHANGED store

---------------------------------------------------------------------------
(* create_market *)

NewMarket(creator, end_block, metadata) ==
    [creator |-> creator, end_block |-> end_block, yes_votes |-> 0,
     no_votes |-> 0, total_staked |-> 0, is_active |-> TRUE,
     metadata |-> metadata]

(* Markets::<T>::insert(market_id, market) *)
MarketsInsert(market_id, market) ==
    [k \in (DOMAIN Markets) \cup {market_id} |->
        IF k = market_id THEN market ELSE Markets[k]]

(* Variant: the counter is put back without the increment *)
NextMarketCount_Stuck(market_id) == market_id

(* MarketCount::<T>::put(market_id.saturating_add(1)) *)
NextMarketCount(market_id) == SatInc(market_id)

(* Variant: the bound is exclusive (a payload of exactly 256 is rejected) *)
MetadataFits_Exclusive(metadata) == metadata < MaxMetadataLen

(* metadata.try_into(): BoundedVec<u8, ConstU32<256>> *)
MetadataFits(metadata) == metadata <= MaxMetadataLen

create_market(origin, metadata) ==
    IF ~ensure_signed(origin)
    THEN Failed("create_market", origin, NoVal, metadata, "BadOrigin")
    ELSE LET market_id == MarketCount
             end_block == block_number + MarketDuration
         IN  IF ~MetadataFits(metadata)
             THEN Failed("create_market", origin, NoVal, metadata, "MetadataTooLong")
             ELSE /\ Markets' = MarketsInsert(market_id,
                                    NewMarket(origin, end_block, metadata))
                  /\ MarketCount' = NextMarketCount(market_id)
                  /\ last' = [op |-> "create_market", origin |-> origin,
                              market_id |-> market_id, arg |-> metadata,
                              result |-> "Ok",
                              events |-> <<[kind |-> "MarketCreated",
                                            market_id |-> market_id,
                                            creator |-> origin,
                                            end_block |-> end_block,
                                            metadata |-> metadata]>>,
                              transfers |-> <<>>]
                  /\ UNCHANGED <<Votes, balance>>

CreateMarket ==
    /\ MarketCount \in MarketIds
    /\ Calls < MaxCalls
    /\ \E origin \in Creators, metadata \in MetadataLens :
          create_market(origin, metadata)
    /\ UNCHANGED block_number

---------------------------------------------------------------------------
(* frame_system: the next block *)
NextBlock ==
    /\ block_number < MaxBlock
    /\ block_number' = block_number + 1
    /\ last' = [op |-> "next_block", origin |-> NoVal, market_id |-> NoVal,
                arg |-> NoVal, result |-> "Ok", events |-> <<>>,
                transfers |-> <<>>]
    /\ UNCHANGED store

---------------------------------------------------------------------------
(* vote *)

(* Votes::<T>::contains_key(market_id, &voter) *)
VotesContainsKey(market_id, voter) == <<market_id, voter>> \in DOMAIN Votes

(* Variant: the record is keyed by the voter alone, so the insert also     *)
(* rewrites the voter's records on other markets                            *)
VotesInsert_ByVoter(market_id, voter, vote_yes) ==
    [k \in (DOMAIN Votes) \cup {<<market_id, voter>>} |->
        IF k[2] = voter THEN vote_yes ELSE Votes[k]]

(* Votes::<T>::insert(market_id, &voter, vote_yes) *)
VotesInsert(market_id, voter, vote_yes) ==
    [k \in (DOMAIN Votes) \cup {<<market_id, voter>>} |->
        IF k = <<market_id, voter>> THEN vote_yes ELSE Votes[k]]

(* Variant: the duplicate-vote check is missing *)
VoteChecks_NoDuplicateCheck(origin, market_id) ==
    IF ~ensure_signed(origin) THEN "BadOrigin"
    ELSE IF market_id \notin DOMAIN Markets THEN "MarketDoesNotExist"
    ELSE IF ~Markets[market_id].is_active THEN "MarketNotActive"
    ELSE IF ~(block_number <= Markets[market_id].end_block) THEN "MarketNotActive"
    ELSE "Ok"

(* Variant: voting closes one block early (< instead of <=) *)
VoteChecks_StrictDeadline(origin, market_id) ==
    IF ~ensure_signed(origin) THEN "BadOrigin"
    ELSE IF market_id \notin DOMAIN Markets THEN "MarketDoesNotExist"
    ELSE IF ~Markets[market_id].is_active THEN "MarketNotActive"
    ELSE IF ~(block_number < Markets[market_id].end_block) THEN "MarketNotActive"
    ELSE IF VotesContainsKey(market_id, origin) THEN "AlreadyVoted"
    ELSE "Ok"

(* Variant: the duplicate-vote check comes before the is_active and       *)
(* deadline checks                                                          *)
VoteChecks_DuplicateFirst(origin, market_id) ==
    IF ~ensure_signed(origin) THEN "BadOrigin"
    ELSE IF market_id \notin DOMAIN Markets THEN "MarketDoesNotExist"
    ELSE IF VotesContainsKey(market_id, origin) THEN "AlreadyVoted"
    ELSE IF ~Markets[market_id].is_active THEN "MarketNotActive"
    ELSE IF ~(block_number <= Markets[market_id].end_block) THEN "MarketNotActive"
    ELSE "Ok"

(* The precondition checks of vote, in the order of the code; "Ok" when   *)
(* all of them pass                                                         *)
VoteChecks(origin, market_id) ==
    IF ~ensure_signed(origin) THEN "BadOrigin"
    ELSE IF market_id \notin DOMAIN Markets THEN "MarketDoesNotExist"
    ELSE IF ~Markets[market_id].is_active THEN "MarketNotActive"
    ELSE IF ~(block_number <= Markets[market_id].end_block) THEN "MarketNotActive"
    ELSE IF VotesContainsKey(market_id, origin) THEN "AlreadyVoted"
    ELSE "Ok"

(* Variant: the stake is added only in the yes branch *)
RecordVote_NoStakeOnNo(market, vote_yes) ==
    [market EXCEPT
        !.yes_votes = IF vote_yes THEN SatInc(@) ELSE @,
        !.no_votes = IF vote_yes THEN @ ELSE SatInc(@),
        !.total_staked = IF vote_yes THEN @ + VoteCost ELSE @]

(* Variant: the two counters are swapped *)
RecordVote_Swapped(market, vote_yes) ==
    [market EXCEPT
        !.yes_votes = IF vote_yes THEN @ ELSE SatInc(@),
        !.no_votes = IF vote_yes THEN SatInc(@) ELSE @,
        !.total_staked = @ + VoteCost]

(* "Record vote": the market with the counter of the side and the stake   *)
(* advanced                                                                 *)
RecordVote(market, vote_yes) ==
    [market EXCEPT
        !.yes_votes = IF vote_yes THEN SatInc(@) ELSE @,
        !.no_votes = IF vote_yes THEN @ ELSE SatInc(@),
        !.total_staked = @ + VoteCost]

(* Variant: the vote is recorded before the transfer and stays recorded *)
(* when the transfer fails                                               *)
vote_RecordFirst(origin, market_id, vote_yes, ledger_ok) ==
    LET checks == VoteChecks(origin, market_id)
        paid == ledger_ok /\ CanTransfer(balance, origin, VoteCost, TRUE)
    IN
    IF checks # "Ok"
    THEN Failed("vote", origin, market_id, vote_yes, checks)
    ELSE /\ balance' = IF paid THEN Transfer(balance, origin, account_id, VoteCost)
                       ELSE balance
         /\ Markets' = MarketsInsert(market_id,
                           RecordVote(Markets[market_id], vote_yes))
         /\ Votes' = VotesInsert(market_id, origin, vote_yes)
         /\ last' = [op |-> "vote", origin |-> origin,
                     market_id |-> market_id, arg |-> vote_yes,
                     result |-> IF paid THEN "Ok" ELSE "LedgerError",
                     events |-> <<>>, transfers |-> <<>>]
         /\ UNCHANGED MarketCount

(* Variant: the stake is sent to the market's creator, not to escrow *)
vote_PaysCreator(origin, market_id, vote_yes, ledger_ok) ==
    LET checks == VoteChecks(origin, market_id) IN
    IF checks # "Ok"
    THEN Failed("vote", origin, market_id, vote_yes, checks)
    ELSE IF ~(ledger_ok /\ CanTransfer(balance, origin, VoteCost, TRUE))
    THEN Failed("vote", origin, market_id, vote_yes, "LedgerError")
    ELSE /\ balance' = Transfer(balance, origin, Markets[market_id].creator,
                                VoteCost)
         /\ Markets' = MarketsInsert(market_id,
                           RecordVote(Markets[market_id], vote_yes))
         /\ Votes' = VotesInsert(market_id, origin, vote_yes)
         /\ last' = [op |-> "vote", origin |-> origin,
                     market_id |-> market_id, arg |-> vote_yes,
                     result |-> "Ok",
                     events |-> <<[kind |-> "VoteCast",
                                   market_id |-> market_id,
                                   voter |-> origin,
                                   vote |-> vote_yes]>>,
                     transfers |-> <<[from |-> origin,
                                      to |-> Markets[market_id].creator,
                                      amount |-> VoteCost, ok |-> TRUE]>>]
         /\ UNCHANGED MarketCount

vote(origin, market_id, vote_yes, ledger_ok) ==
    LET checks == VoteChecks(origin, market_id) IN
    IF checks # "Ok"
    THEN Failed("vote", origin, market_id, vote_yes, checks)
    ELSE IF ~(ledger_ok /\ CanTransfer(balance, origin, VoteCost, TRUE))
    THEN Failed("vote", origin, market_id, vote_yes, "LedgerError")
    ELSE /\ balance' = Transfer(balance, origin, account_id, VoteCost)
         /\ Markets' = MarketsInsert(market_id,
                           RecordVote(Markets[market_id], vote_yes))
         /\ Votes' = VotesInsert(market_id, origin, vote_yes)
         /\ last' = [op |-> "vote", origin |-> origin,
                     market_id |-> market_id, arg |-> vote_yes,
                     result |-> "Ok",
                     events |-> <<[kind |-> "VoteCast",
                                   market_id |-> market_id,
                                   voter |-> origin,
                                   vote |-> vote_yes]>>,
                     transfers |-> <<[from |-> origin, to |-> account_id,
                                      amount |-> VoteCost, ok |-> TRUE]>>]
         /\ UNCHANGED MarketCount

Vote ==
    /\ Calls < MaxCalls
    /\ \E origin \in Accounts, market_id \in MarketIds, vote_yes \in BOOLEAN :
          \E ledger_ok \in IF VoteChecks(origin, market_id) = "Ok"
                           THEN BOOLEAN ELSE {TRUE} :
             vote(origin, market_id, vote_yes, ledger_ok)
    /\ UNCHANGED block_number

---------------------------------------------------------------------------
(* release_rewards *)

(* Votes::<T>::iter_prefix(market_id): the (voter, vote) records of the   *)
(* market, in the order the storage hands them out                         *)
IterPrefix(market_id) ==
    LET keep(i) == <<market_id, AccountOrder[i]>> \in DOMAIN Votes
        F[i \in 0..Len(AccountOrder)] ==
            IF i = 0 THEN <<>>
            ELSE IF keep(i)
                 THEN Append(F[i - 1], <<AccountOrder[i],
                                         Votes[<<market_id, AccountOrder[i]>>]>>)
                 ELSE F[i - 1]
    IN  F[Len(AccountOrder)]

(* Variant: the division comes before the multiplication *)
CreatorReward_DivFirst(total_reward_pool) ==
    (total_reward_pool \div 100) * CreatorRewardPercentage

(* total_reward_pool.saturating_mul(pct).checked_div(100).unwrap_or(0) *)
CreatorReward(total_reward_pool) ==
    (total_reward_pool * CreatorRewardPercentage) \div 100

(* Variant: a tie goes to the yes side (>= instead of >) *)
YesWins_TieToYes(market) == market.yes_votes >= market.no_votes

(* yes_wins *)
YesWins(market) == market.yes_votes > market.no_votes

(* Variant: winner_count is taken from the losing side *)
WinnerCount_Losers(market) ==
    IF YesWins(market) THEN market.no_votes ELSE market.yes_votes

(* winner_count *)
WinnerCount(market) ==
    IF YesWins(market) THEN market.yes_votes ELSE market.no_votes

(* Variant: every winner is sent the whole remaining pool (no division) *)
RewardPerWinner_NoDivision(remaining_reward_pool, winner_count) ==
    remaining_reward_pool

(* remaining_reward_pool.checked_div(winner_count).unwrap_or(0) *)
RewardPerWinner(remaining_reward_pool, winner_count) ==
    IF winner_count = 0 THEN 0 ELSE remaining_reward_pool \div winner_count

(* Variant: the loop pays every voter of the market *)
IsWinner_Everyone(choice, yes_wins) == TRUE

(* The payout filter of the loop: vote == yes_wins *)
IsWinner(choice, yes_wins) == choice = yes_wins

(* let _ = T::Currency::transfer(escrow, to, amount, AllowDeath): the     *)
(* result is dropped; st is [bal, log], refused the recipients the ledger *)
(* turns down                                                              *)
BestEffortTransfer(st, to, amount, refused) ==
    LET ok == to \notin refused /\ CanTransfer(st.bal, account_id, amount, FALSE)
    IN  [bal |-> IF ok THEN Transfer(st.bal, account_id, to, amount) ELSE st.bal,
         log |-> Append(st.log, [from |-> account_id, to |-> to,
                                 amount |-> amount, ok |-> ok])]

(* The "Distribute rewards to winners" loop over the records recs *)
RECURSIVE DistributeRewards(_, _, _, _, _)
DistributeRewards(st, recs, yes_wins, reward_per_winner, refused) ==
    IF recs = <<>> THEN st
    ELSE LET voter == Head(recs)[1]
             v == Head(recs)[2]
             st1 == IF IsWinner(v, yes_wins)
                    THEN BestEffortTransfer(st, voter, reward_per_winner, refused)
                    ELSE st
         IN  DistributeRewards(st1, Tail(recs), yes_wins, reward_per_winner, refused)

(* Variant: the deadline check is missing *)
ReleaseChecks_NoDeadline(origin, market_id) ==
    IF ~ensure_signed(origin) THEN "BadOrigin"
    ELSE IF market_id \notin DOMAIN Markets THEN "MarketDoesNotExist"
    ELSE IF ~Markets[market_id].is_active THEN "MarketNotActive"
    ELSE "Ok"

(* Variant: the is_active check is missing *)
ReleaseChecks_NoActiveCheck(origin, market_id) ==
    IF ~ensure_signed(origin) THEN "BadOrigin"
    ELSE IF market_id \notin DOMAIN Markets THEN "MarketDoesNotExist"
    ELSE IF ~(block_number > Markets[market_id].end_block) THEN "MarketStillActive"
    ELSE "Ok"

(* Variant: settlement opens at the deadline itself (>= instead of >) *)
ReleaseChecks_AtDeadline(origin, market_id) ==
    IF ~ensure_signed(origin) THEN "BadOrigin"
    ELSE IF market_id \notin DOMAIN Markets THEN "MarketDoesNotExist"
    ELSE IF ~Markets[market_id].is_active THEN "MarketNotActive"
    ELSE IF ~(block_number >= Markets[market_id].end_block) THEN "MarketStillActive"
    ELSE "Ok"

(* The precondition checks of release_rewards, in the order of the code *)
ReleaseChecks(origin, market_id) ==
    IF ~ensure_signed(origin) THEN "BadOrigin"
    ELSE IF market_id \notin DOMAIN Markets THEN "MarketDoesNotExist"
    ELSE IF ~Markets[market_id].is_active THEN "MarketNotActive"
    ELSE IF ~(block_number > Markets[market_id].end_block) THEN "MarketStillActive"
    ELSE "Ok"

(* Variant: the market is written back without being deactivated *)
Deactivate_Forgotten(market) == market

(* market.is_active = false *)
Deactivate(market) == [market EXCEPT !.is_active = FALSE]

(* The accounts the payout loop can reach: the voters of the market *)
Voters(market_id) == {a \in Accounts : <<market_id, a>> \in DOMAIN Votes}

(* Variant: the transfer results are propagated with ? instead of dropped, *)
(* so one refused transfer aborts the settlement                           *)
release_rewards_Propagate(origin, market_id, refused_winners, creator_refused) ==
    LET checks == ReleaseChecks(origin, market_id) IN
    IF checks # "Ok"
    THEN Failed("release_rewards", origin, market_id, NoVal, checks)
    ELSE LET market == Deactivate(Markets[market_id])
             creator_reward == CreatorReward(market.total_staked)
             reward_per_winner ==
                 RewardPerWinner(SatSub(market.total_staked, creator_reward),
                                 WinnerCount(market))
             st0 == [bal |-> balance, log |-> <<>>]
             st1 == IF WinnerCount(market) > 0
                    THEN DistributeRewards(st0, IterPrefix(market_id),
                             YesWins(market), reward_per_winner, refused_winners)
                    ELSE st0
             st2 == BestEffortTransfer(st1, market.creator, creator_reward,
                        IF creator_refused THEN {market.creator} ELSE {})
         IN  IF \E i \in 1..Len(st2.log) : ~st2.log[i].ok
             THEN Failed("release_rewards", origin, market_id, NoVal, "LedgerError")
             ELSE /\ balance' = st2.bal
                  /\ Markets' = MarketsInsert(market_id, market)
                  /\ last' = [op |-> "release_rewards", origin |-> origin,
                              market_id |-> market_id, arg |-> NoVal,
                              result |-> "Ok",
                              events |-> <<[kind |-> "RewardsDistributed",
                                            market_id |-> market_id,
                                            creator |-> market.creator,
                                            creator_reward |-> creator_reward]>>,
                              transfers |-> st2.log]
                  /\ UNCHANGED <<MarketCount, Votes>>

(* refused_winners / creator_refused: what the ledger turns down *)
release_rewards(origin, market_id, refused_winners, creator_refused) ==
    LET checks == ReleaseChecks(origin, market_id) IN
    IF checks # "Ok"
    THEN Failed("release_rewards", origin, market_id, NoVal, checks)
    ELSE LET market == Deactivate(Markets[market_id])
             total_reward_pool == market.total_staked
             creator_reward == CreatorReward(total_reward_pool)
             remaining_reward_pool == SatSub(total_reward_pool, creator_reward)
             yes_wins == YesWins(market)
             winner_count == WinnerCount(market)
             reward_per_winner == RewardPerWinner(remaining_reward_pool, winner_count)
             st0 == [bal |-> balance, log |-> <<>>]
             st1 == IF winner_count > 0
                    THEN DistributeRewards(st0, IterPrefix(market_id), yes_wins,
                                           reward_per_winner, refused_winners)
                    ELSE st0
             st2 == BestEffortTransfer(st1, market.creator, creator_reward,
                        IF creator_refused THEN {market.creator} ELSE {})
         IN  /\ balance' = st2.bal
             /\ Markets' = MarketsInsert(market_id, market)
             /\ last' = [op |-> "release_rewards", origin |-> origin,
                         market_id |-> market_id, arg |-> NoVal,
                         result |-> "Ok",
                         events |-> <<[kind |-> "RewardsDistributed",
                                       market_id |-> market_id,
                                       creator |-> market.creator,
                                       creator_reward |-> creator_reward]>>,
                         transfers |-> st2.log]
             /\ UNCHANGED <<MarketCount, Votes>>

ReleaseRewards ==
    /\ Calls < MaxCalls
    /\ \E origin \in Accounts, market_id \in MarketIds :
          \E refused_winners \in IF ReleaseChecks(origin, market_id) = "Ok"
                                 THEN SUBSET Voters(market_id) ELSE {{}},
             creator_refused \in IF ReleaseChecks(origin, market_id) = "Ok"
                                 THEN BOOLEAN ELSE {FALSE} :
             release_rewards(origin, market_id, refused_winners, creator_refused)
    /\ UNCHANGED block_number

---------------------------------------------------------------------------
Next == CreateMarket \/ Vote \/ ReleaseRewards \/ NextBlock

Spec == Init /\ [][Next]_vars

---------------------------------------------------------------------------
(* Properties.  A step is described by the state before it (unprimed), the *)
(* state after it (primed) and last', the call the step carried out.       *)

(* The step is a call of op on market m that returned Ok *)
Succeeds(op, m) ==
    last'.op = op /\ last'.market_id = m /\ last'.result = "Ok"

(* The step is a call of op on market m, whatever it returned *)
CallOn(op, m) == last'.op = op /\ last'.market_id = m

(* C1: in every reachable state every stored market, settled or not, has   *)
(* total_staked = VoteCost * (yes_votes + no_votes).                        *)
C1_StakeMatchesVotes ==
    \A m \in DOMAIN Markets :
        Markets[m].total_staked =
            VoteCost * (Markets[m].yes_votes + Markets[m].no_votes)

(* C1 witness: a settled market that holds both yes and no votes *)
C1_Witness ==
    \E m \in DOMAIN Markets :
        /\ ~Markets[m].is_active
        /\ Markets[m].yes_votes > 0
        /\ Markets[m].no_votes > 0

(* C2: a market is active when it is created; is_active goes from true to  *)
(* false only in a successful release_rewards on that market, run at a     *)
(* block number greater than its end_block; and a market that is inactive  *)
(* is still inactive after every step (so the change happens at most once).*)
C2_ActiveLifecycle ==
    [][\A m \in DOMAIN Markets' :
          /\ m \notin DOMAIN Markets => Markets'[m].is_active
          /\ (m \in DOMAIN Markets /\ Markets[m].is_active
                /\ ~Markets'[m].is_active)
                => /\ Succeeds("release_rewards", m)
                   /\ block_number > Markets[m].end_block
          /\ (m \in DOMAIN Markets /\ ~Markets[m].is_active)
                => ~Markets'[m].is_active]_vars

(* C2 witness: a vote is accepted on one market after another market has   *)
(* been settled                                                             *)
C2_Witness ==
    /\ last.op = "vote" /\ last.result = "Ok"
    /\ \E m \in DOMAIN Markets : ~Markets[m].is_active

(* C3: a release_rewards call on a market that is already settled, by any  *)
(* caller at any block, returns MarketNotActive, attempts no transfer and  *)
(* changes no balance and no storage.                                       *)
C3_SettledOnce ==
    [][\A m \in Settled :
          CallOn("release_rewards", m)
             => /\ last'.result = "MarketNotActive"
                /\ last'.transfers = <<>>
                /\ last'.events = <<>>
                /\ UNCHANGED store]_vars

(* C3 witness: a second release_rewards, by an account that is not the     *)
(* creator, refused on a settled market that had a stake to pay out        *)
C3_Witness ==
    /\ last.op = "release_rewards" /\ last.result = "MarketNotActive"
    /\ last.market_id \in Settled
    /\ Markets[last.market_id].total_staked > 0
    /\ last.origin # Markets[last.market_id].creator

(* The step is a vote call by account a on market m, whatever it returned *)
VoteBy(a, m) == CallOn("vote", m) /\ last'.origin = a

(* C4 as stated: a vote call by an account that already has a vote record  *)
(* on the market always returns AlreadyVoted and leaves the record and the *)
(* counters as they were.                                                   *)
C4_AlwaysAlreadyVoted ==
    [][\A k \in DOMAIN Votes :
          VoteBy(k[2], k[1])
             => /\ last'.result = "AlreadyVoted"
                /\ UNCHANGED <<Markets, Votes>>]_vars

(* C4 amended: a vote call by an account that already has a vote record on *)
(* the market never succeeds, whatever choice it carries: it returns       *)
(* AlreadyVoted while the market is active and the block number is at most *)
(* end_block, and MarketNotActive once the market is settled or the        *)
(* deadline has passed (those checks come first); in both cases the        *)
(* record, the counters and the balances are left as they were.            *)
C4_SecondVoteRefused ==
    [][\A k \in DOMAIN Votes :
          VoteBy(k[2], k[1])
             => /\ last'.result =
                      IF Markets[k[1]].is_active
                         /\ block_number <= Markets[k[1]].end_block
                      THEN "AlreadyVoted" ELSE "MarketNotActive"
                /\ UNCHANGED store]_vars

(* C4 witness: AlreadyVoted returned to a second vote that carries the     *)
(* other choice than the one recorded                                       *)
C4_Witness ==
    /\ last.op = "vote" /\ last.result = "AlreadyVoted"
    /\ <<last.market_id, last.origin>> \in DOMAIN Votes
    /\ Votes[<<last.market_id, last.origin>>] # last.arg

(* C5: a vote on an existing market at a block number greater than its    *)
(* end_block returns MarketNotActive, also while is_active is still true;  *)
(* a vote on an active market at a block number at most end_block does not *)
(* return MarketNotActive.                                                  *)
C5_VotingDeadline ==
    [][\A m \in DOMAIN Markets :
          CallOn("vote", m)
             => /\ block_number > Markets[m].end_block
                      => last'.result = "MarketNotActive"
                /\ (Markets[m].is_active
                      /\ block_number <= Markets[m].end_block)
                      => last'.result \in {"Ok", "AlreadyVoted", "LedgerError"}
                /\ (Markets[m].is_active
                      /\ block_number <= Markets[m].end_block
                      /\ <<m, last'.origin>> \notin DOMAIN Votes
                      /\ last'.result # "LedgerError")
                      => last'.result = "Ok"]_vars

(* C5 witness: a vote refused with MarketNotActive after the deadline on a *)
(* market whose is_active is still true                                     *)
C5_Witness ==
    /\ last.op = "vote" /\ last.result = "MarketNotActive"
    /\ last.market_id \in DOMAIN Markets
    /\ Markets[last.market_id].is_active
    /\ block_number > Markets[last.market_id].end_block

(* C5 second witness: a vote accepted at exactly end_block *)
C5_WitnessAtDeadline ==
    /\ last.op = "vote" /\ last.result = "Ok"
    /\ block_number = Markets[last.market_id].end_block

(* C6: release_rewards on an active market at a block number at most       *)
(* end_block returns MarketStillActive and leaves the market active (and   *)
(* everything else unchanged); on an inactive market it returns            *)
(* MarketNotActive at every block number.                                   *)
C6_ReleaseRefusals ==
    [][\A m \in DOMAIN Markets :
          CallOn("release_rewards", m)
             => /\ (Markets[m].is_active
                      /\ block_number <= Markets[m].end_block)
                      => /\ last'.result = "MarketStillActive"
                         /\ Markets'[m].is_active
                         /\ UNCHANGED store
                /\ ~Markets[m].is_active
                      => last'.result = "MarketNotActive"]_vars

(* C6 witness: release_rewards refused with MarketStillActive at exactly   *)
(* end_block                                                                *)
C6_Witness ==
    /\ last.op = "release_rewards" /\ last.result = "MarketStillActive"
    /\ block_number = Markets[last.market_id].end_block
    /\ Markets[last.market_id].is_active

(* C7: a create_market, vote or release_rewards call that returns an error *)
(* leaves Markets, Votes, MarketCount and every balance as they were, and  *)
(* deposits no event; a vote whose stake transfer fails leaves no record.  *)
C7_ErrorsChangeNothing ==
    [][last'.result # "Ok"
          => /\ UNCHANGED store
             /\ last'.events = <<>>]_vars

(* C7 witness: a vote that passed every check and whose stake transfer     *)
(* failed                                                                   *)
C7_Witness ==
    /\ last.op = "vote" /\ last.result = "LedgerError"
    /\ <<last.market_id, last.origin>> \notin DOMAIN Votes
    /\ Markets[last.market_id].is_active

(* The step is a create_market call that returned Ok *)
Creates == last'.op = "create_market" /\ last'.result = "Ok"

(* C8: a successful create_market gives the market the id MarketCount had  *)
(* before the call, raises MarketCount by exactly 1, stores the market     *)
(* under an id that was free and leaves the other markets as they were; no *)
(* other step changes MarketCount; the stored ids are 0 .. MarketCount-1.  *)
C8_DenseIdentifiers ==
    [][/\ Creates
            => /\ last'.market_id = MarketCount
               /\ MarketCount' = MarketCount + 1
               /\ MarketCount \notin DOMAIN Markets
               /\ DOMAIN Markets' = DOMAIN Markets \cup {MarketCount}
               /\ \A m \in DOMAIN Markets : Markets'[m] = Markets[m]
       /\ ~Creates => MarketCount' = MarketCount
       /\ DOMAIN Markets' = 0..(MarketCount' - 1)]_vars

(* C8 witness: the second market has just been created, after a vote on    *)
(* the first one                                                            *)
C8_Witness ==
    /\ last.op = "create_market" /\ last.result = "Ok"
    /\ last.market_id = 1
    /\ MarketCount = 2
    /\ Markets[0].total_staked > 0

(* The transfers release_rewards attempted in the step, in order *)
Attempts == last'.transfers

(* C9: a successful release_rewards on market m computes creator_reward =  *)
(* floor(total_staked * CreatorRewardPercentage / 100), attempts a         *)
(* transfer of exactly that amount from escrow to the creator (the last    *)
(* transfer of the call, the only one besides the winner payouts) and      *)
(* reports the same amount in RewardsDistributed; total_staked = 40 at 5   *)
(* percent gives 2 and leaves a pool of 38.                                 *)
C9_CreatorReward ==
    [][\A m \in DOMAIN Markets :
          Succeeds("release_rewards", m)
             => LET reward == (Markets[m].total_staked
                                  * CreatorRewardPercentage) \div 100
                    paid == {i \in 1..Len(Attempts) :
                                /\ Attempts[i].to = Markets[m].creator
                                /\ Attempts[i].amount = reward
                                /\ Attempts[i].from = account_id}
                IN  /\ Len(Attempts) = WinnerCount(Markets[m]) + 1
                    /\ Len(Attempts) \in paid
                    /\ last'.events =
                          <<[kind |-> "RewardsDistributed", market_id |-> m,
                             creator |-> Markets[m].creator,
                             creator_reward |-> reward]>>
                    /\ balance'[Markets[m].creator] >= balance[Markets[m].creator]
                    /\ Attempts[Len(Attempts)].ok
                          => balance'[Markets[m].creator]
                                >= balance[Markets[m].creator] + reward
                    /\ (CreatorRewardPercentage = 5 /\ VoteCost = 10)
                          => /\ CreatorReward(4 * VoteCost) = 2
                             /\ SatSub(4 * VoteCost, CreatorReward(4 * VoteCost)) = 38]_vars

(* C9 witness: a settlement whose creator reward is not zero and was paid  *)
(* to a creator who did not vote on the market                             *)
C9_Witness ==
    /\ last.op = "release_rewards" /\ last.result = "Ok"
    /\ last.events[1].creator_reward > 0
    /\ last.transfers[Len(last.transfers)].ok
    /\ <<last.market_id, last.events[1].creator>> \notin DOMAIN Votes

(* The accounts whose vote record on market m is for side *)
VotersFor(m, side) ==
    {a \in Accounts : <<m, a>> \in DOMAIN Votes /\ Votes[<<m, a>>] = side}

(* C10: a successful release_rewards on market m with winner_count > 0     *)
(* attempts, before the creator transfer, exactly one transfer of          *)
(* floor((total_staked - creator_reward) / winner_count) from escrow to    *)
(* each account whose vote record on m is for the winning side, and none   *)
(* to any other account; 3 yes and 1 no at VoteCost 10 and 5 percent give  *)
(* 12 each.                                                                 *)
C10_WinnerPayouts ==
    [][\A m \in DOMAIN Markets :
          (Succeeds("release_rewards", m)
             /\ Markets[m].yes_votes + Markets[m].no_votes > 0)
             => LET yes_wins == Markets[m].yes_votes > Markets[m].no_votes
                    winners == VotersFor(m, yes_wins)
                    count == IF yes_wins THEN Markets[m].yes_votes
                             ELSE Markets[m].no_votes
                    total == Markets[m].total_staked
                    reward == (total - (total * CreatorRewardPercentage) \div 100)
                                 \div count
                    payouts == SubSeq(Attempts, 1, Len(Attempts) - 1)
                IN  /\ count > 0
                    /\ Len(payouts) = Cardinality(winners)
                    /\ {payouts[i].to : i \in 1..Len(payouts)} = winners
                    /\ \A i \in 1..Len(payouts) :
                          /\ payouts[i].amount = reward
                          /\ payouts[i].from = account_id
                    /\ \A a \in Accounts \ (winners \cup {Markets[m].creator}) :
                          balance'[a] = balance[a]
                    /\ (CreatorRewardPercentage = 5 /\ VoteCost = 10)
                          => RewardPerWinner(
                                SatSub(4 * VoteCost, CreatorReward(4 * VoteCost)), 3) = 12]_vars

(* C10 witness: a settlement with two winners and one loser, all payouts   *)
(* carried out                                                              *)
C10_Witness ==
    /\ last.op = "release_rewards" /\ last.result = "Ok"
    /\ Len(last.transfers) = 3
    /\ \A i \in 1..3 : last.transfers[i].ok
    /\ Cardinality(Voters(last.market_id)) = 3
    /\ last.transfers[1].amount = 14

(* The accounts the winner payouts of the step went to (all transfers but *)
(* the last one, which is the creator's)                                    *)
PayoutRecipients ==
    {Attempts[i].to : i \in 1..(Len(Attempts) - 1)}

(* C11: at a successful release_rewards the winning side is yes only when  *)
(* yes_votes > no_votes; on a tie with votes the winning side is no,       *)
(* winner_count is no_votes and exactly the accounts that voted no are     *)
(* paid (2 yes and 2 no: no wins, winner_count 2).                          *)
C11_TieFavoursNo ==
    [][\A m \in DOMAIN Markets :
          Succeeds("release_rewards", m)
             => LET yes == Markets[m].yes_votes
                    no == Markets[m].no_votes
                IN  /\ yes > no
                         => /\ PayoutRecipients = VotersFor(m, TRUE)
                            /\ Len(Attempts) = yes + 1
                    /\ yes < no
                         => /\ PayoutRecipients = VotersFor(m, FALSE)
                            /\ Len(Attempts) = no + 1
                    /\ (yes = no /\ yes > 0)
                         => /\ PayoutRecipients = VotersFor(m, FALSE)
                            /\ Len(Attempts) = no + 1
                            /\ WinnerCount(Markets[m]) = no
                            /\ \A a \in VotersFor(m, TRUE) \ {Markets[m].creator} :
                                  balance'[a] = balance[a]
                    /\ ~YesWins([yes_votes |-> 2, no_votes |-> 2])
                    /\ WinnerCount([yes_votes |-> 2, no_votes |-> 2]) = 2]_vars

(* C11 witness: a tied market (one yes, one no) settled, the no voter paid *)
C11_Witness ==
    /\ last.op = "release_rewards" /\ last.result = "Ok"
    /\ Markets[last.market_id].yes_votes = 1
    /\ Markets[last.market_id].no_votes = 1
    /\ Len(last.transfers) = 2
    /\ last.transfers[1].ok
    /\ Votes[<<last.market_id, last.transfers[1].to>>] = FALSE

(* What account a received through the transfers of log that succeeded *)
RECURSIVE Received(_, _)
Received(log, a) ==
    IF log = <<>> THEN 0
    ELSE (IF Head(log).ok /\ Head(log).to = a THEN Head(log).amount ELSE 0)
            + Received(Tail(log), a)

(* What left the escrow account through the transfers of log that succeeded *)
RECURSIVE PaidOut(_)
PaidOut(log) ==
    IF log = <<>> THEN 0
    ELSE (IF Head(log).ok THEN Head(log).amount ELSE 0) + PaidOut(Tail(log))

(* C12: release_rewards on an active market at a block number greater     *)
(* than end_block, by any account, returns Ok, marks the market inactive   *)
(* and deposits RewardsDistributed, whichever transfers the ledger         *)
(* refuses; every transfer that succeeded stays in the balances.           *)
C12_SettlementAbsorbsFailures ==
    [][\A m \in DOMAIN Markets :
          (CallOn("release_rewards", m) /\ Markets[m].is_active
             /\ block_number > Markets[m].end_block)
             => /\ last'.result = "Ok"
                /\ ~Markets'[m].is_active
                /\ Len(last'.events) = 1
                /\ last'.events[1].kind = "RewardsDistributed"
                /\ last'.events[1].market_id = m
                /\ \A a \in Accounts :
                      balance'[a] = balance[a] + Received(Attempts, a)
                /\ balance'[account_id] = balance[account_id] - PaidOut(Attempts)]_vars

(* C12 witness: a settlement, called by an account that is not the         *)
(* creator, in which one winner payout was refused and another one was     *)
(* carried out                                                              *)
C12_Witness ==
    /\ last.op = "release_rewards" /\ last.result = "Ok"
    /\ last.origin # Markets[last.market_id].creator
    /\ ~Markets[last.market_id].is_active
    /\ Len(last.transfers) = 3
    /\ ~last.transfers[1].ok
    /\ last.transfers[2].ok /\ last.transfers[2].amount > 0

(* The rounding remainder of market m: what is left of total_staked after *)
(* the creator reward and winner_count payouts of the floored share       *)
Dust(m) ==
    LET total == Markets[m].total_staked
        reward == (total * CreatorRewardPercentage) \div 100
        count == IF Markets[m].yes_votes > Markets[m].no_votes
                 THEN Markets[m].yes_votes ELSE Markets[m].no_votes
        share == IF count = 0 THEN 0 ELSE (total - reward) \div count
    IN  total - reward - count * share

(* What the escrow account has to hold: the stake of every market that is *)
(* still active and the remainder of every settled one                     *)
RECURSIVE Owed(_)
Owed(ms) ==
    IF ms = {} THEN 0
    ELSE LET m == CHOOSE x \in ms : TRUE
         IN  (IF Markets[m].is_active THEN Markets[m].total_staked ELSE Dust(m))
                + Owed(ms \ {m})

(* C13: a settlement takes out of escrow at most the market's total_staked *)
(* less its rounding remainder, and after every step the escrow balance    *)
(* still covers the remainder of every settled market (and the stake of    *)
(* every active one): no later operation on any market moves a remainder   *)
(* out.  3 yes / 1 no at VoteCost 10 and 5 percent leaves 2.                *)
C13_DustStaysInEscrow ==
    [][/\ \A m \in DOMAIN Markets :
             Succeeds("release_rewards", m)
                => /\ PaidOut(Attempts) <= Markets[m].total_staked - Dust(m)
                   /\ PaidOut(Attempts) <= Markets[m].total_staked
                   /\ Dust(m) >= 0
       /\ balance'[account_id] >= Owed(DOMAIN Markets)'
       /\ (CreatorRewardPercentage = 5 /\ VoteCost = 10)
             => 4 * VoteCost - CreatorReward(4 * VoteCost)
                   - 3 * RewardPerWinner(
                            SatSub(4 * VoteCost, CreatorReward(4 * VoteCost)), 3) = 2]_vars

(* C13 witness: a market settled with every transfer carried out and a     *)
(* remainder left, then the other market settled, and the escrow account   *)
(* still holds the first remainder                                          *)
C13_Witness ==
    /\ last.op = "release_rewards" /\ last.result = "Ok"
    /\ \A i \in 1..Len(last.transfers) : last.transfers[i].ok
    /\ Markets[last.market_id].total_staked > 0
    /\ \E m \in Settled :
          /\ m # last.market_id
          /\ Dust(m) > 0
          /\ balance[account_id] = Dust(m) + Dust(last.market_id)

(* C14: a successful release_rewards on a market without votes computes a  *)
(* creator reward of 0, attempts no winner payout (the only transfer is    *)
(* the creator's, of amount 0), changes no balance, deactivates the market *)
(* and deposits RewardsDistributed with creator_reward 0.                   *)
C14_EmptyMarketSettles ==
    [][\A m \in DOMAIN Markets :
          /\ (CallOn("release_rewards", m) /\ Voters(m) = {}
                /\ Markets[m].is_active /\ block_number > Markets[m].end_block)
                => last'.result = "Ok"
          /\ (Succeeds("release_rewards", m) /\ Voters(m) = {})
                => /\ Attempts = <<[from |-> account_id,
                                    to |-> Markets[m].creator,
                                    amount |-> 0, ok |-> Attempts[1].ok]>>
                   /\ balance' = balance
                   /\ ~Markets'[m].is_active
                   /\ last'.events =
                         <<[kind |-> "RewardsDistributed", market_id |-> m,
                            creator |-> Markets[m].creator,
                            creator_reward |-> 0]>>]_vars

(* C14 witness: a market without votes settled while the escrow account    *)
(* holds the stake of the other market                                      *)
C14_Witness ==
    /\ last.op = "release_rewards" /\ last.result = "Ok"
    /\ Voters(last.market_id) = {}
    /\ ~Markets[last.market_id].is_active
    /\ balance[account_id] > 0

---------------------------------------------------------------------------
(* create_market over a wider range of payload lengths (a metadata payload *)
(* is represented by its length in bytes, the only thing try_into reads)   *)

WideMetadataLens == {0, 1, 255, 256, 257, 258, 1000}

CreateMarketAnyLength ==
    /\ MarketCount \in MarketIds
    /\ \E origin \in Creators, metadata \in WideMetadataLens :
          create_market(origin, metadata)
    /\ UNCHANGED block_number

NextMeta == CreateMarketAnyLength \/ NextBlock

SpecMeta == Init /\ [][NextMeta]_vars

(* C15 (under SpecMeta): create_market succeeds for every payload of 0 to  *)
(* 256 bytes and stores it, fails with MetadataTooLong for every payload   *)
(* of 257 bytes or more, storing no market and leaving MarketCount as it   *)
(* was; every stored metadata has at most 256 bytes.                        *)
C15_MetadataBound ==
    [][/\ last'.op = "create_market"
            => /\ last'.arg <= 256
                    => /\ last'.result = "Ok"
                       /\ MarketCount' = MarketCount + 1
                       /\ Markets'[MarketCount].metadata = last'.arg
               /\ last'.arg >= 257
                    => /\ last'.result = "MetadataTooLong"
                       /\ UNCHANGED store
       /\ \A m \in DOMAIN Markets' : Markets'[m].metadata <= 256]_vars

(* C15 witness: markets stored with an empty and with a 256-byte payload,  *)
(* then a 257-byte payload rejected                                         *)
C15_Witness ==
    /\ last.op = "create_market" /\ last.result = "MetadataTooLong"
    /\ last.arg = 257
    /\ MarketCount = 1
    /\ Markets[0].metadata = 256

(* C15 second witness: an empty payload accepted *)
C15_WitnessEmpty ==
    /\ last.op = "create_market" /\ last.result = "Ok"
    /\ last.arg = 0
    /\ Markets[last.market_id].metadata = 0

(* C16: vote reports the first failing check in the order: unknown market  *)
(* (MarketDoesNotExist), inactive market (MarketNotActive), block number   *)
(* greater than end_block (MarketNotActive), existing vote record          *)
(* (AlreadyVoted); a refused call attempts no transfer, and a ledger error *)
(* is returned only when all four checks pass.                              *)
C16_VoteCheckOrder ==
    [][\A a \in Accounts, m \in MarketIds :
          VoteBy(a, m)
             => LET first ==
                       IF m \notin DOMAIN Markets THEN "MarketDoesNotExist"
                       ELSE IF ~Markets[m].is_active THEN "MarketNotActive"
                       ELSE IF block_number > Markets[m].end_block
                            THEN "MarketNotActive"
                       ELSE IF <<m, a>> \in DOMAIN Votes THEN "AlreadyVoted"
                       ELSE "none"
                IN  /\ first # "none"
                         => /\ last'.result = first
                            /\ last'.transfers = <<>>
                            /\ balance' = balance
                    /\ first = "none"
                         => last'.result \in {"Ok", "LedgerError"}
                    /\ last'.result = "LedgerError" => first = "none"]_vars

(* C16 witness: a vote by an account that already voted, on a market that  *)
(* is settled and past its deadline, is answered by the is_active check    *)
C16_Witness ==
    /\ last.op = "vote" /\ last.result = "MarketNotActive"
    /\ last.market_id \in Settled
    /\ <<last.market_id, last.origin>> \in DOMAIN Votes
    /\ block_number > Markets[last.market_id].end_block

(* C17: stored records are append-only.  A stored market stays stored and  *)
(* keeps its creator, end_block and metadata; a vote record stays and      *)
(* keeps its choice; a vote or release_rewards call on market m leaves the *)
(* records of every other market and the vote records of every other       *)
(* market as they were.                                                      *)
C17_AppendOnly ==
    [][/\ \A m \in DOMAIN Markets :
             /\ m \in DOMAIN Markets'
             /\ Markets'[m].creator = Markets[m].creator
             /\ Markets'[m].end_block = Markets[m].end_block
             /\ Markets'[m].metadata = Markets[m].metadata
       /\ \A k \in DOMAIN Votes :
             k \in DOMAIN Votes' /\ Votes'[k] = Votes[k]
       /\ \A m \in MarketIds :
             (CallOn("vote", m) \/ CallOn("release_rewards", m))
                => /\ \A n \in DOMAIN Markets \ {m} : Markets'[n] = Markets[n]
                   /\ DOMAIN Markets' = DOMAIN Markets
                   /\ \A k \in DOMAIN Votes' :
                         k[1] # m => (k \in DOMAIN Votes /\ Votes'[k] = Votes[k])]_vars

(* C17 witness: a vote accepted on one market from an account whose        *)
(* record on the other, settled market carries the other choice             *)
C17_Witness ==
    /\ last.op = "vote" /\ last.result = "Ok"
    /\ \E m \in Settled :
          /\ m # last.market_id
          /\ <<m, last.origin>> \in DOMAIN Votes
          /\ Votes[<<m, last.origin>>] # last.arg

(* C18: in every reachable state, for every market, yes_votes is the       *)
(* number of its vote records that hold true and no_votes the number that  *)
(* hold false; hence winner_count is the number of records the payout scan *)
(* selects.                                                                  *)
C18_CountersMatchRecords ==
    \A m \in DOMAIN Markets :
        /\ Markets[m].yes_votes = Cardinality(VotersFor(m, TRUE))
        /\ Markets[m].no_votes = Cardinality(VotersFor(m, FALSE))
        /\ WinnerCount(Markets[m])
              = Cardinality({i \in 1..Len(IterPrefix(m)) :
                                IsWinner(IterPrefix(m)[i][2], YesWins(Markets[m]))})
        /\ \A k \in DOMAIN Votes : k[1] \in DOMAIN Markets

(* C18 witness: a settled market with two yes records and one no record *)
C18_Witness ==
    \E m \in Settled :
        /\ Markets[m].yes_votes = 2
        /\ Markets[m].no_votes = 1
        /\ Cardinality(VotersFor(m, TRUE)) = 2

(* C19: at a successful release_rewards winner_count is 0 only when the    *)
(* market has no vote (yes_votes = no_votes = 0, total_staked = 0); with   *)
(* at least one vote winner_count > 0 and the payout loop runs (a payout   *)
(* is attempted for each winner), so the branch without winners never      *)
(* leaves a non-zero pool behind.                                            *)
C19_NoWinnerOnlyWithoutVotes ==
    [][\A m \in DOMAIN Markets :
          Succeeds("release_rewards", m)
             => /\ WinnerCount(Markets[m]) = 0
                     => /\ Markets[m].yes_votes = 0
                        /\ Markets[m].no_votes = 0
                        /\ Markets[m].total_staked = 0
                        /\ Voters(m) = {}
                /\ Voters(m) # {}
                     => /\ WinnerCount(Markets[m]) > 0
                        /\ Len(Attempts) >= 2
                        /\ Len(Attempts) = WinnerCount(Markets[m]) + 1
                /\ Len(Attempts) = 1 => Markets[m].total_staked = 0]_vars

(* C19 witness: a market whose only vote is a no vote is settled and the   *)
(* payout loop pays that voter                                              *)
C19_Witness ==
    /\ last.op = "release_rewards" /\ last.result = "Ok"
    /\ Markets[last.market_id].yes_votes = 0
    /\ Markets[last.market_id].no_votes = 1
    /\ Len(last.transfers) = 2
    /\ last.transfers[1].ok /\ last.transfers[1].amount > 0

---------------------------------------------------------------------------
(* The calls against a ledger that refuses a transfer only when the sender *)
(* cannot afford it                                                          *)

VoteFunded ==
    /\ Calls < MaxCalls
    /\ \E origin \in Accounts, market_id \in MarketIds, vote_yes \in BOOLEAN :
          vote(origin, market_id, vote_yes, TRUE)
    /\ UNCHANGED block_number

ReleaseRewardsFunded ==
    /\ Calls < MaxCalls
    /\ \E origin \in Accounts, market_id \in MarketIds :
          release_rewards(origin, market_id, {}, FALSE)
    /\ UNCHANGED block_number

NextFunded == CreateMarket \/ VoteFunded \/ ReleaseRewardsFunded \/ NextBlock

SpecFunded == Init /\ [][NextFunded]_vars

(* The stake of the markets of ms that are still active *)
RECURSIVE ActiveStake(_)
ActiveStake(ms) ==
    IF ms = {} THEN 0
    ELSE LET m == CHOOSE x \in ms : TRUE
         IN  (IF Markets[m].is_active THEN Markets[m].total_staked ELSE 0)
                + ActiveStake(ms \ {m})

(* C20 (under SpecFunded: escrow moved only by the pallet, transfers fail  *)
(* only for lack of funds): after every step the escrow balance is at      *)
(* least the sum of total_staked over the markets still active, and every  *)
(* transfer of a successful release_rewards is carried out, so a           *)
(* settlement never spends the stake of another unsettled market and no    *)
(* payout fails because escrow is short.                                     *)
C20_EscrowCoversActiveStake ==
    [][/\ balance'[account_id] >= ActiveStake(DOMAIN Markets)'
       /\ \A m \in DOMAIN Markets :
             Succeeds("release_rewards", m)
                => /\ \A i \in 1..Len(Attempts) : Attempts[i].ok
                   /\ balance[account_id] - balance'[account_id]
                         <= Markets[m].total_staked]_vars

(* C20 witness: one market settled with payouts while the other market is  *)
(* still active and holds a stake, which the escrow account still covers   *)
C20_Witness ==
    /\ last.op = "release_rewards" /\ last.result = "Ok"
    /\ Markets[last.market_id].total_staked > 0
    /\ \E n \in DOMAIN Markets :
          /\ Markets[n].is_active
          /\ Markets[n].total_staked > 0
          /\ balance[account_id] >= Markets[n].total_staked

=============================================================================
